---- MODULE Spec2Model ----
(***************************************************************************)
(* Model of text_messages.py: the tmux relay driver that polls two ollama  *)
(* panes, extracts the latest reply of one agent and sends it to the other.*)
(*                                                                         *)
(* Text is modelled as a sequence of tokens.  Each token stands for one    *)
(* literal of the program text: ">>>" is the input-echo token, "Send" the  *)
(* rest of the prompt marker (" Send a message" without its leading        *)
(* blank), "Him:" and "Her:" the two speaker tags, "..." the ellipsis,     *)
(* " " one blank, and "hi", "yo" two words.  A line is a sequence of       *)
(* tokens, a pane buffer a sequence of lines.                              *)
(***************************************************************************)
EXTENDS Integers, Sequences, FiniteSets, TLC

(* ---------------- configuration (text_messages.py:11-14) --------------- *)
PANE_MAN == "0.0"
PANE_WOMAN == "0.1"
Panes == {PANE_MAN, PANE_WOMAN}
PROMPT_MARKER == <<">>>", " ", "Send">>
HIM_PREFIX == "Him:"
HER_PREFIX == "Her:"

(* ---------------- str helpers used by the program ---------------------- *)
\* str.strip() == "" : the line holds nothing but blanks
IsBlank(s) == \A i \in 1..Len(s) : s[i] = " "

RECURSIVE LStrip(_)
LStrip(s) == IF s # <<>> /\ Head(s) = " " THEN LStrip(Tail(s)) ELSE s

RECURSIVE RStrip(_)
RStrip(s) ==
    IF s # <<>> /\ s[Len(s)] = " " THEN RStrip(SubSeq(s, 1, Len(s) - 1)) ELSE s

Strip(s) == RStrip(LStrip(s))

\* `pat in s` for str: pat occurs as a contiguous piece of s
Contains(s, pat) ==
    \E i \in 1..(Len(s) - Len(pat) + 1) : SubSeq(s, i, i + Len(pat) - 1) = pat

\* s.startswith(tok) for a one-token literal
StartsWith(s, tok) == s # <<>> /\ Head(s) = tok

\* s.find(tok) for a one-token literal: first position (1-based), 0 if absent
Find(s, tok) ==
    IF \E i \in 1..Len(s) : s[i] = tok
    THEN CHOOSE i \in 1..Len(s) :
            s[i] = tok /\ \A j \in 1..(i - 1) : s[j] # tok
    ELSE 0

\* s.replace("...", " ")
ReplaceAll(s) == [i \in 1..Len(s) |-> IF s[i] = "..." THEN " " ELSE s[i]]

\* s.replace("...", " ", 1)
ReplaceFirst(s) ==
    [i \in 1..Len(s) |-> IF i = Find(s, "...") THEN " " ELSE s[i]]

\* " ".join(strip(l) for l in ls)
RECURSIVE JoinSpace(_)
JoinSpace(ls) ==
    IF ls = <<>> THEN <<>>
    ELSE IF Len(ls) = 1 THEN Strip(ls[1])
    ELSE Strip(ls[1]) \o <<" ">> \o JoinSpace(Tail(ls))

\* "".join(ls)
RECURSIVE JoinEmpty(_)
JoinEmpty(ls) == IF ls = <<>> THEN <<>> ELSE Head(ls) \o JoinEmpty(Tail(ls))

\* while ls and not ls[0].strip(): ls.pop(0)
RECURSIVE DropLeadingBlank(_)
DropLeadingBlank(ls) ==
    IF ls # <<>> /\ IsBlank(Head(ls)) THEN DropLeadingBlank(Tail(ls)) ELSE ls

\* while ls and not ls[-1].strip(): ls.pop()
RECURSIVE DropTrailingBlank(_)
DropTrailingBlank(ls) ==
    IF ls # <<>> /\ IsBlank(ls[Len(ls)])
    THEN DropTrailingBlank(SubSeq(ls, 1, Len(ls) - 1))
    ELSE ls

(* ---------------- get_pane_output: stdout.strip().splitlines() --------- *)
\* the captured text loses its leading and trailing white space (blank
\* lines included) before it is split into lines
StripBuffer(raw) ==
    LET ls == DropTrailingBlank(DropLeadingBlank(raw))
    IN  IF ls = <<>> THEN <<>>
        ELSE IF Len(ls) = 1 THEN <<Strip(ls[1])>>
        ELSE <<LStrip(ls[1])>> \o SubSeq(ls, 2, Len(ls) - 1)
                 \o <<RStrip(ls[Len(ls)])>>

(* ---------------- count_prompts ---------------------------------------- *)
PromptIndices_AnyEcho(ls) == {i \in 1..Len(ls) : Contains(ls[i], <<">>>">>)}

PromptIndices(ls) == {i \in 1..Len(ls) : Contains(ls[i], PROMPT_MARKER)}

count_prompts(ls) == Cardinality(PromptIndices(ls))

(* ---------------- extract_response ------------------------------------- *)
Max(S) == CHOOSE m \in S : \A x \in S : x <= m

\* indices are 1-based here: Python's `i > 0` is `i > 1`, range(last) is
\* 1..last-1
CommandMarkers(ls, last_prompt_idx) ==
    {i \in 1..(last_prompt_idx - 1) :
        /\ i > 1
        /\ StartsWith(Strip(ls[i]), ">>>")
        /\ ~Contains(ls[i], PROMPT_MARKER)}

\* first line of the slice (1-based), i.e. Python's start_idx + 1
StartIdx(ls, last_prompt_idx) ==
    IF CommandMarkers(ls, last_prompt_idx) = {}
    THEN 1
    ELSE Max(CommandMarkers(ls, last_prompt_idx)) + 1

ResponseLines(ls) ==
    LET last_prompt_idx == Max(PromptIndices(ls))
    IN  DropTrailingBlank(DropLeadingBlank(
            SubSeq(ls, StartIdx(ls, last_prompt_idx), last_prompt_idx - 1)))

CleanLine(line) ==
    IF StartsWith(Strip(line), "...") THEN LStrip(ReplaceFirst(line)) ELSE line

extract_response(ls) ==
    IF PromptIndices(ls) = {} THEN <<>>
    ELSE
      LET response_lines == ResponseLines(ls)
          full_text == JoinSpace(response_lines)
          him_prefix_pos == Find(full_text, HIM_PREFIX)
          her_prefix_pos == Find(full_text, HER_PREFIX)
      IN  IF him_prefix_pos > 0
          THEN ReplaceAll(Strip(SubSeq(full_text, him_prefix_pos + 1,
                                       Len(full_text))))
          ELSE IF her_prefix_pos > 0
          THEN ReplaceAll(Strip(SubSeq(full_text, her_prefix_pos + 1,
                                       Len(full_text))))
          ELSE JoinEmpty([i \in 1..Len(response_lines) |->
                             CleanLine(response_lines[i])])

(* ---------------- bounds of the model ----------------------------------- *)
\* relayed messages recorded before the model stops sending
MaxRelays == 3

P == PROMPT_MARKER

\* pane contents the two agents can show (raw capture, before strip)
BufEmpty == <<>>
BufReady == <<P, <<>>>>
BufTwoPrompts == << <<"...">>, <<"Her:", " ", "hi">>, <<>>, P, P >>
BufHim == <<P, <<">>>", " ", "yo">>, <<"Him:", " ", "hi">>, P>>
BufHer == <<P, <<">>>", " ", "hi">>, <<"Her:", " ", "yo">>, P, <<" ">>>>

Buffers == {BufEmpty, BufReady, BufTwoPrompts, BufHim, BufHer}

\* messages the driver itself sends during setup (text_messages.py:399-423)
ROLE_MAN == <<"ROLE_MAN">>
ROLE_WOMAN == <<"ROLE_WOMAN">>
START_MSG == <<"START">>
NumSetupSends == 3
MaxSends == NumSetupSends + MaxRelays

(* ---------------- state ------------------------------------------------ *)
VARIABLES
    pc,                \* position of the single driver thread
    in_loop,           \* TRUE once main is inside `while True: try:`
    pane,              \* raw content of each tmux pane (the agents write it)
    call,              \* arguments of the running relay_response call
    base_prompt_count, \* relay_response: baseline boundary count
    stable_count,      \* wait_for_prompt local
    last_output,       \* wait_for_prompt local
    lines,             \* buffer returned by wait_for_prompt
    response,          \* relay_response local
    last_sender,       \* global, "M" or "W"
    last_response,     \* global
    sent,              \* log of send_to_pane calls: [to, msg]
    last_status,       \* exit status of tmux in the latest send_to_pane of
                       \* the call in progress or just returned
    pending,           \* exception travelling to the finally block
    cleaned,           \* cleanup_tmux has been called
    exit_status,       \* how the process ended
    entry,             \* globals as they were when the relay call began
    outcome,           \* how the last relay call returned
    seen,              \* last snapshot polled by the running wait
    run,               \* consecutive latest polls that observed `seen`
    s_pc,              \* send_to_pane run on its own: position
    s_msg,             \* its message argument
    s_pane,            \* its pane argument
    tmp,               \* the file made by NamedTemporaryFile(delete=False)
    tmux_calls         \* the tmux commands it ran, with their statuses

vars == <<pc, in_loop, pane, call, base_prompt_count, stable_count,
          last_output, lines, response, last_sender, last_response, sent,
          pending, cleaned, exit_status, entry, outcome, seen, run,
          last_status, s_pc, s_msg, s_pane, tmp, tmux_calls>>

sendVars == <<s_pc, s_msg, s_pane, tmp, tmux_calls>>

NoCall == [from |-> "-", to |-> "-", flag |-> "-"]
ManCall == [from |-> PANE_MAN, to |-> PANE_WOMAN, flag |-> "W"]
WomanCall == [from |-> PANE_WOMAN, to |-> PANE_MAN, flag |-> "M"]

NoEntry == [sender |-> "-", response |-> <<>>, nsent |-> 0, prev |-> "none"]

settle_loops == 3

get_pane_output(p) == StripBuffer(pane[p])

\* line 225: `current_prompt_count > base_prompt_count`
HasNewPrompt_Ge(current, base) == current >= base

HasNewPrompt(current, base) == current > base

\* line 228: `stable_count >= settle_loops`
Settled_Late(n) == n > settle_loops

Settled(n) == n >= settle_loops

\* line 342: `not response`
NoResponse_Never(resp) == FALSE

NoResponse(resp) == resp = <<>>

\* line 346: `response == last_response`
IsDuplicate_Never(resp, last) == FALSE

IsDuplicate_History(resp, last) ==
    \E i \in 1..Len(sent) : sent[i].msg = resp

IsDuplicate(resp, last) == resp = last

\* exit statuses of the tmux commands of send_to_pane: 0 or a failure
TmuxStatus == {0, 1}

\* lines 167-172: subprocess.run without check=True; the returncode is
\* dropped and relay_response goes on to line 361 whatever it was
AfterSend_Retry(status) == IF status = 0 THEN "commit" ELSE "send"

AfterSend(status) == "commit"

\* lines 429-432: the party main asks next
TurnCall_AlwaysMan(sender) == ManCall

TurnCall(sender) == IF sender = "M" THEN ManCall ELSE WomanCall

\* send_to_pane is not being run on its own
SendIdle ==
    /\ s_pc = "idle"
    /\ s_msg = <<>>
    /\ s_pane = "-"
    /\ tmp = "none"
    /\ tmux_calls = <<>>

Init ==
    /\ pc = "setup"
    /\ in_loop = FALSE
    /\ pane \in [Panes -> Buffers]
    /\ call = NoCall
    /\ base_prompt_count = 0
    /\ stable_count = 0
    /\ last_output = <<>>
    /\ lines = <<>>
    /\ response = <<>>
    /\ last_sender = "M"
    /\ last_response = <<>>
    /\ sent = <<>>
    /\ last_status = 0
    /\ pending = "none"
    /\ cleaned = FALSE
    /\ exit_status = "running"
    /\ entry = NoEntry
    /\ outcome = "none"
    /\ seen = <<>>
    /\ run = 0
    /\ SendIdle

relayVars == <<call, base_prompt_count, stable_count, last_output, lines,
               response, entry, outcome, seen, run>>
exitVars == <<pending, cleaned, exit_status>>

(* ---------------- the agents ------------------------------------------- *)
\* the pane the driver captures next
Watched ==
    IF pc = "ready_man" THEN {PANE_MAN}
    ELSE IF pc = "ready_woman" THEN {PANE_WOMAN}
    ELSE IF pc \in {"call", "poll"} THEN {call.from}
    ELSE {}

\* an agent (or tmux) changes what a pane shows; a change is observed by the
\* next capture-pane of that pane only, so it is taken right before one
PaneOutput(p) ==
    /\ p \in Watched
    /\ \E b \in Buffers \ {pane[p]} : pane' = [pane EXCEPT ![p] = b]
    /\ UNCHANGED sendVars
    /\ UNCHANGED <<pc, in_loop, relayVars, last_sender, last_response, sent,
                   exitVars, last_status>>

(* ---------------- main: setup (lines 384-423) -------------------------- *)
\* scenario prompt, bootstrap_tmux, the two role instructions
SetupStep ==
    /\ pc = "setup"
    /\ sent' = sent \o <<[to |-> PANE_MAN, msg |-> ROLE_MAN],
                         [to |-> PANE_WOMAN, msg |-> ROLE_WOMAN]>>
    /\ last_status' \in TmuxStatus
    /\ pc' = "ready_man"
    /\ UNCHANGED sendVars
    /\ UNCHANGED <<in_loop, relayVars, last_sender, last_response, exitVars>>

Setup ==
    /\ SetupStep
    /\ UNCHANGED pane

\* one round of `while True: lines = get_pane_output(PANE_MAN) ...`
WaitReadyMan ==
    /\ pc = "ready_man"
    /\ pc' = IF count_prompts(get_pane_output(PANE_MAN)) > 0
             THEN "ready_woman" ELSE "ready_man"
    /\ UNCHANGED sendVars
    /\ UNCHANGED <<in_loop, pane, relayVars, last_sender, last_response,
                   sent, exitVars, last_status>>

WaitReadyWoman ==
    /\ pc = "ready_woman"
    /\ pc' = IF count_prompts(get_pane_output(PANE_WOMAN)) > 0
             THEN "start" ELSE "ready_woman"
    /\ UNCHANGED sendVars
    /\ UNCHANGED <<in_loop, pane, relayVars, last_sender, last_response,
                   sent, exitVars, last_status>>

\* send the start directive, then call relay_response(PANE_MAN, ...)
StartStep ==
    /\ pc = "start"
    /\ sent' = Append(sent, [to |-> PANE_MAN, msg |-> START_MSG])
    /\ last_status' \in TmuxStatus
    /\ call' = ManCall
    /\ pc' = "call"
    /\ UNCHANGED sendVars
    /\ UNCHANGED <<in_loop, base_prompt_count, stable_count, last_output,
                   lines, response, entry, outcome, seen, run, last_sender,
                   last_response, exitVars>>

StartConversation ==
    /\ StartStep
    /\ UNCHANGED pane

(* ---------------- main: conversation loop (lines 427-432) -------------- *)
LoopIter ==
    /\ pc = "loop"
    /\ call' = TurnCall(last_sender)
    /\ pc' = "call"
    /\ UNCHANGED sendVars
    /\ UNCHANGED <<in_loop, pane, base_prompt_count, stable_count,
                   last_output, lines, response, entry, outcome, seen, run,
                   last_sender, last_response, sent, exitVars, last_status>>

(* ---------------- relay_response (lines 333-362) ----------------------- *)
\* line 334, and the locals of wait_for_prompt (lines 216-217); `lines` and
\* `response` of the new frame are not assigned yet
RelayBase ==
    /\ pc = "call"
    /\ base_prompt_count' = count_prompts(get_pane_output(call.from))
    /\ stable_count' = 0
    /\ last_output' = <<>>
    /\ lines' = <<>>
    /\ response' = <<>>
    /\ entry' = [sender |-> last_sender, response |-> last_response,
                 nsent |-> Len(sent), prev |-> outcome]
    /\ outcome' = "none"
    /\ last_status' = 0
    /\ seen' = <<>>
    /\ run' = 0
    /\ pc' = "poll"
    /\ UNCHANGED sendVars
    /\ UNCHANGED <<in_loop, pane, call, last_sender, last_response, sent,
                   exitVars>>

\* one round of the loop of wait_for_prompt (lines 221-234)
Poll ==
    /\ pc = "poll"
    /\ LET snap == get_pane_output(call.from)
           current_prompt_count == count_prompts(snap)
       IN  /\ run' = IF run > 0 /\ snap = seen
                     THEN (IF run > settle_loops THEN run ELSE run + 1)
                     ELSE 1
           /\ seen' = snap
           /\ IF HasNewPrompt(current_prompt_count, base_prompt_count)
              THEN IF snap = last_output
                   THEN /\ stable_count' = stable_count + 1
                        /\ last_output' = last_output
                        /\ IF Settled(stable_count + 1)
                           THEN /\ lines' = snap
                                /\ pc' = "extract"
                           ELSE /\ lines' = lines
                                /\ pc' = "poll"
                   ELSE /\ stable_count' = 0
                        /\ last_output' = snap
                        /\ UNCHANGED <<lines, pc>>
              ELSE UNCHANGED <<stable_count, last_output, lines, pc>>
    /\ UNCHANGED sendVars
    /\ UNCHANGED <<in_loop, pane, call, base_prompt_count, response, entry,
                   outcome, last_sender, last_response, sent, exitVars, last_status>>

\* lines 340-348: extract, then the two early returns; the locals of
\* wait_for_prompt are gone
Extract ==
    /\ pc = "extract"
    /\ response' = extract_response(lines)
    /\ IF NoResponse(response')
       THEN /\ outcome' = "empty"
            /\ pc' = "loop"
            /\ in_loop' = TRUE
       ELSE IF IsDuplicate(response', last_response)
       THEN /\ outcome' = "duplicate"
            /\ pc' = "loop"
            /\ in_loop' = TRUE
       ELSE /\ pc' = "send"
            /\ UNCHANGED <<outcome, in_loop>>
    /\ stable_count' = 0
    /\ last_output' = <<>>
    /\ seen' = <<>>
    /\ run' = 0
    /\ UNCHANGED sendVars
    /\ UNCHANGED <<pane, call, base_prompt_count, lines, entry, last_sender,
                   last_response, sent, exitVars, last_status>>

\* line 360: send_to_pane(to_pane, response); tmux may report any status
SendStep ==
    /\ pc = "send"
    /\ Len(sent) < MaxSends
    /\ sent' = Append(sent, [to |-> call.to, msg |-> response])
    /\ last_status' \in TmuxStatus
    /\ pc' = AfterSend(last_status')
    /\ UNCHANGED sendVars
    /\ UNCHANGED <<in_loop, relayVars, last_sender, last_response, exitVars>>

Send ==
    /\ SendStep
    /\ UNCHANGED pane

\* lines 361-362, and the return to main
Commit_KeepResponse ==
    /\ pc = "commit"
    /\ last_response' = last_response
    /\ last_sender' = call.flag
    /\ outcome' = "relayed"
    /\ pc' = "loop"
    /\ in_loop' = TRUE
    /\ UNCHANGED sendVars
    /\ UNCHANGED <<pane, call, base_prompt_count, stable_count, last_output,
                   lines, response, entry, seen, run, sent, exitVars, last_status>>

Commit_NoFlip ==
    /\ pc = "commit"
    /\ last_response' = response
    /\ last_sender' = last_sender
    /\ outcome' = "relayed"
    /\ pc' = "loop"
    /\ in_loop' = TRUE
    /\ UNCHANGED sendVars
    /\ UNCHANGED <<pane, call, base_prompt_count, stable_count, last_output,
                   lines, response, entry, seen, run, sent, exitVars, last_status>>

Commit ==
    /\ pc = "commit"
    /\ last_response' = response
    /\ last_sender' = call.flag
    /\ outcome' = "relayed"
    /\ pc' = "loop"
    /\ in_loop' = TRUE
    /\ UNCHANGED sendVars
    /\ UNCHANGED <<pane, call, base_prompt_count, stable_count, last_output,
                   lines, response, entry, seen, run, sent, exitVars, last_status>>

(* ---------------- exceptions and exit (lines 382, 433-437) ------------- *)
Running == pc # "done"

\* the frames of relay_response and wait_for_prompt are gone once main ends
Unwind ==
    /\ call' = NoCall
    /\ base_prompt_count' = 0
    /\ stable_count' = 0
    /\ last_output' = <<>>
    /\ lines' = <<>>
    /\ response' = <<>>
    /\ entry' = NoEntry
    /\ outcome' = "none"
    /\ seen' = <<>>
    /\ run' = 0

\* what main does with an exception of kind e raised inside its try block:
\* `except KeyboardInterrupt` (line 433) covers the loop body only; then
\* `finally: cleanup_tmux()` (line 437), and a pending exception leaves main
Leave_NoFinally(e) ==
    /\ pending' = IF e = "KeyboardInterrupt" /\ in_loop THEN "none" ELSE e
    /\ cleaned' = (pending' = "none")
    /\ exit_status' = IF pending' = "none" THEN "clean" ELSE "error"
    /\ pc' = "done"
    /\ Unwind
    /\ UNCHANGED sendVars
    /\ UNCHANGED <<in_loop, pane, last_sender, last_response, sent,
                   last_status>>

Leave(e) ==
    /\ pending' = IF e = "KeyboardInterrupt" /\ in_loop THEN "none" ELSE e
    /\ cleaned' = TRUE
    /\ exit_status' = IF pending' = "none" THEN "clean" ELSE "error"
    /\ pc' = "done"
    /\ Unwind
    /\ UNCHANGED sendVars
    /\ UNCHANGED <<in_loop, pane, last_sender, last_response, sent,
                   last_status>>

\* Ctrl-C, at any point of the run
KeyboardInterrupt ==
    /\ Running
    /\ Leave("KeyboardInterrupt")

\* an exception other than Ctrl-C raised by a call the driver makes:
\* subprocess.run raising OSError (tmux cannot be started), or the temporary
\* file of send_to_pane failing (lines 143-145)
SubprocessError ==
    /\ pc \in {"setup", "ready_man", "ready_woman", "start", "call", "poll",
               "send"}
    /\ Leave("OSError")

Next ==
    \/ \E p \in Panes : PaneOutput(p)
    \/ Setup
    \/ WaitReadyMan
    \/ WaitReadyWoman
    \/ StartConversation
    \/ LoopIter
    \/ RelayBase
    \/ Poll
    \/ Extract
    \/ Send
    \/ Commit
    \/ KeyboardInterrupt
    \/ SubprocessError

Spec == Init /\ [][Next]_vars

TypeOK ==
    /\ pc \in {"setup", "ready_man", "ready_woman", "start", "call", "poll",
               "extract", "send", "commit", "loop", "done"}
    /\ last_sender \in {"M", "W"}
    /\ stable_count \in 0..settle_loops
    /\ Len(sent) <= MaxSends

(* ---------------- the driver with two answering agents ---------------- *)
\* Here a pane is a transcript that only grows: the prompt line the agent
\* shows when it is up, the echo of every message send_to_pane types into it
\* (">>> " and the text), and for every message the agent answers, the lines
\* of the answer and a new prompt line.
Echo(msg) == <<">>>", " ">> \o msg

\* messages typed into pane p, and messages its agent has answered
Delivered(p) ==
    Cardinality({i \in 1..Len(pane[p]) :
                    StartsWith(pane[p][i], ">>>") /\ pane[p][i] # P})
Answered(p) == Cardinality({i \in 1..Len(pane[p]) : pane[p][i] = P}) - 1
Pending(p) == Delivered(p) - Answered(p)

\* what an agent may print as one answer, before the prompt
Replies(p) ==
    IF p = PANE_MAN
    THEN {<< <<"Him:", " ", "hi">> >>, <<>>}
    ELSE {<< <<"Her:", " ", "hi">> >>, << <<"Her:", " ", "yo">> >>}

AgentInit ==
    /\ pc = "setup"
    /\ in_loop = FALSE
    /\ pane = [p \in Panes |-> <<P>>]
    /\ call = NoCall
    /\ base_prompt_count = 0
    /\ stable_count = 0
    /\ last_output = <<>>
    /\ lines = <<>>
    /\ response = <<>>
    /\ last_sender = "M"
    /\ last_response = <<>>
    /\ sent = <<>>
    /\ last_status = 0
    /\ pending = "none"
    /\ cleaned = FALSE
    /\ exit_status = "running"
    /\ entry = NoEntry
    /\ outcome = "none"
    /\ seen = <<>>
    /\ run = 0
    /\ SendIdle

\* the agent of pane p answers the oldest message it has not answered yet
AgentReply(p) ==
    /\ pc # "done"
    /\ Pending(p) > 0
    /\ \E r \in Replies(p) :
          pane' = [pane EXCEPT ![p] = pane[p] \o r \o <<P>>]
    /\ UNCHANGED sendVars
    /\ UNCHANGED <<pc, in_loop, relayVars, last_sender, last_response, sent,
                   exitVars, last_status>>

\* the sends of the driver, each typing its message into the target pane
AgentSetup ==
    /\ SetupStep
    /\ pane' = [p \in Panes |->
                  Append(pane[p], Echo(IF p = PANE_MAN THEN ROLE_MAN
                                       ELSE ROLE_WOMAN))]

AgentStartConversation ==
    /\ StartStep
    /\ pane' = [pane EXCEPT ![PANE_MAN] = Append(@, Echo(START_MSG))]

AgentSend ==
    /\ SendStep
    /\ pane' = [pane EXCEPT ![call.to] = Append(@, Echo(response))]

AgentNext ==
    \/ \E p \in Panes : AgentReply(p)
    \/ AgentSetup
    \/ WaitReadyMan
    \/ WaitReadyWoman
    \/ AgentStartConversation
    \/ LoopIter
    \/ RelayBase
    \/ Poll
    \/ Extract
    \/ AgentSend
    \/ Commit
    \/ KeyboardInterrupt
    \/ SubprocessError

AgentSpec == AgentInit /\ [][AgentNext]_vars

(* ---------------- send_to_pane on its own (lines 130-172) -------------- *)
\* the driver's variables while one function is run on its own: the thread
\* is at pcv, wait_for_prompt returned ls, last_response is lr
DriverAt(pcv, ls, lr) ==
    /\ pc = pcv
    /\ in_loop = FALSE
    /\ pane = [p \in Panes |-> BufEmpty]
    /\ call = ManCall
    /\ base_prompt_count = 0
    /\ stable_count = 0
    /\ last_output = <<>>
    /\ lines = ls
    /\ response = <<>>
    /\ last_sender = "M"
    /\ last_response = lr
    /\ sent = <<>>
    /\ last_status = 0
    /\ pending = "none"
    /\ cleaned = FALSE
    /\ exit_status = "running"
    /\ entry = NoEntry
    /\ outcome = "none"
    /\ seen = <<>>
    /\ run = 0

driverVars == <<pc, in_loop, pane, call, base_prompt_count, stable_count,
                last_output, lines, response, last_sender, last_response,
                sent, last_status, pending, cleaned, exit_status, entry,
                outcome, seen, run>>

\* characters a token stands for: "x1000" is a run of 1000 characters,
\* "\n" a line break
TokLen(tok) ==
    IF tok = "x1000" THEN 1000
    ELSE IF tok \in {"\n", " "} THEN 1
    ELSE 2

RECURSIVE MsgLen(_)
MsgLen(m) == IF m = <<>> THEN 0 ELSE TokLen(Head(m)) + MsgLen(Tail(m))

LongMessage == 1000

\* line 141: `len(message) > 1000 or '\n' in message`
UsesBuffer(m) ==
    MsgLen(m) > LongMessage \/ \E i \in 1..Len(m) : m[i] = "\n"

\* messages send_to_pane is run on
SendMessages ==
    {<<>>, <<"hi">>, <<"hi", " ", "yo">>, <<"x1000">>, <<"x1000", "hi">>,
     <<"hi", "\n", "yo">>, <<"x1000", "\n", "x1000">>}

SendInit ==
    /\ DriverAt("send", <<>>, <<>>)
    /\ s_pc = "begin"
    /\ s_msg \in SendMessages
    /\ s_pane \in Panes
    /\ tmp = "none"
    /\ tmux_calls = <<>>

\* subprocess.run(["tmux", cmd, ...]): any exit status, never checked
Tmux(cmd, st) == tmux_calls' = Append(tmux_calls, [cmd |-> cmd, status |-> st])

\* lines 141-144: choose the method; NamedTemporaryFile(delete=False)
\* creates the file, or raises and creates nothing
SendBegin ==
    /\ s_pc = "begin"
    /\ IF UsesBuffer(s_msg)
       THEN \/ tmp' = "exists" /\ s_pc' = "write"
            \/ tmp' = tmp /\ s_pc' = "raised"
       ELSE tmp' = tmp /\ s_pc' = "keys"
    /\ UNCHANGED <<s_msg, s_pane, tmux_calls>>
    /\ UNCHANGED driverVars

\* line 145 and the end of the with block: temp.write(message) and the
\* close; both are outside the try of line 147, so an exception raised here
\* leaves send_to_pane at once
SendWrite ==
    /\ s_pc = "write"
    /\ \/ s_pc' = "load"
       \/ s_pc' = "raised"
    /\ UNCHANGED <<s_msg, s_pane, tmp, tmux_calls>>
    /\ UNCHANGED driverVars

\* lines 152-153 inside try; if subprocess.run raises, the finally block of
\* lines 158-163 unlinks the file
SendLoad ==
    /\ s_pc = "load"
    /\ \/ \E st \in TmuxStatus :
             /\ Tmux("load-buffer", st)
             /\ s_pc' = "paste"
             /\ tmp' = tmp
       \/ /\ tmux_calls' = tmux_calls
          /\ tmp' = "none"
          /\ s_pc' = "raised"
    /\ UNCHANGED <<s_msg, s_pane>>
    /\ UNCHANGED driverVars

\* lines 156-163: paste-buffer, then the finally block unlinks the file
SendPaste ==
    /\ s_pc = "paste"
    /\ tmp' = "none"
    /\ \/ \E st \in TmuxStatus :
             /\ Tmux("paste-buffer", st)
             /\ s_pc' = "enter"
       \/ /\ tmux_calls' = tmux_calls
          /\ s_pc' = "raised"
    /\ UNCHANGED <<s_msg, s_pane>>
    /\ UNCHANGED driverVars

\* lines 166-168: send-keys -l
SendKeys ==
    /\ s_pc = "keys"
    /\ \/ \E st \in TmuxStatus :
             /\ Tmux("send-keys -l", st)
             /\ s_pc' = "enter"
       \/ /\ tmux_calls' = tmux_calls
          /\ s_pc' = "raised"
    /\ UNCHANGED <<s_msg, s_pane, tmp>>
    /\ UNCHANGED driverVars

\* lines 171-172: the Enter key
SendEnter ==
    /\ s_pc = "enter"
    /\ \/ \E st \in TmuxStatus :
             /\ Tmux("send-keys C-m", st)
             /\ s_pc' = "returned"
       \/ /\ tmux_calls' = tmux_calls
          /\ s_pc' = "raised"
    /\ UNCHANGED <<s_msg, s_pane, tmp>>
    /\ UNCHANGED driverVars

SendNext ==
    \/ SendBegin
    \/ SendWrite
    \/ SendLoad
    \/ SendPaste
    \/ SendKeys
    \/ SendEnter

SendSpec == SendInit /\ [][SendNext]_vars

(* ---------------- extract_response on its own (lines 236-318) ---------- *)
\* longest buffer extract_response is run on
MaxLines == 3

Tokens == {">>>", " ", "Send", "Him:", "Her:", "...", "hi", "yo"}

\* lines a pane can show
ExtractLines ==
    { <<>>,
      PROMPT_MARKER,
      <<">>>", " ", "yo">>,
      <<"hi">>,
      <<"...", " ", "hi">>,
      <<"Him:", " ", "hi">>,
      <<"Her:", " ", "yo">>,
      <<"Her:", " ", "hi", " ", "Him:", " ", "yo">>,
      <<"Him:", " ", "...", "...", "yo">> }

ExtractBuffers == UNION {[1..n -> ExtractLines] : n \in 0..MaxLines}

ExtractInit ==
    /\ \E ls \in ExtractBuffers, lr \in {<<>>, <<"hi">>} :
          DriverAt("extract", ls, lr)
    /\ SendIdle

ExtractNext == Extract

ExtractSpec == ExtractInit /\ [][ExtractNext]_vars

(* ---------------- properties -------------------------------------------- *)
\* number of relayed messages, and the last one
NumRelayed == Len(sent) - NumSetupSends
Returned == pc = "loop" /\ outcome # "none"
Body == extract_response(lines)

\* C1: when a relay_response call has returned, last_sender differs from its
\* value at the call iff the extracted body is non-empty and differs from
\* last_response as it was at the call.
C1_TurnChangesIffRelayed ==
    Returned =>
        ((last_sender # entry.sender)
            <=> (Body # <<>> /\ Body # entry.response))

C1_Witness ==
    /\ Returned
    /\ last_sender = "M"
    /\ entry.sender = "W"
    /\ Body # <<>>

\* C2: the relayed messages go to the woman, the man, the woman, ... in
\* turn; every running call is the one last_sender asks for; and last_sender
\* is "M" exactly when an even number of messages has been relayed.
C2_StrictAlternation ==
    /\ \A k \in 1..NumRelayed :
          sent[NumSetupSends + k].to =
              IF k % 2 = 1 THEN PANE_WOMAN ELSE PANE_MAN
    /\ pc \in {"call", "poll", "extract", "send"}
          => call = (IF last_sender = "M" THEN ManCall ELSE WomanCall)
    /\ pc \notin {"commit", "done"}
          => ((last_sender = "M") <=> (NumRelayed <= 0 \/ NumRelayed % 2 = 0))

C2_Witness ==
    /\ pc = "poll"
    /\ NumRelayed = 2
    /\ call = ManCall

\* C3: a call that extracted a body equal to last_response returns with
\* last_sender and last_response as they were and without a send_to_pane.
C3_DuplicateSuppressed ==
    (Returned /\ Body = entry.response) =>
        /\ last_sender = entry.sender
        /\ last_response = entry.response
        /\ Len(sent) = entry.nsent

C3_Witness ==
    /\ Returned
    /\ Body # <<>>
    /\ Body = entry.response

\* C4: outside the two statements that follow send_to_pane, last_response is
\* the body of the latest relayed message, and empty before the first one.
C4_HistoryIsLastForwarded ==
    pc \notin {"commit", "done"} =>
        last_response =
            IF NumRelayed > 0 THEN sent[Len(sent)].msg ELSE <<>>

C4_Witness ==
    /\ Returned
    /\ outcome \in {"empty", "duplicate"}
    /\ NumRelayed > 0
    /\ Body # last_response

\* C5: the buffer wait_for_prompt returns has more prompt lines than the
\* baseline it was called with.
C5_ReturnsAboveBaseline ==
    pc = "extract" => count_prompts(lines) > base_prompt_count

C5_Witness ==
    /\ pc = "extract"
    /\ base_prompt_count = 1
    /\ count_prompts(lines) = 2

\* C6: when wait_for_prompt returns, the settle_loops latest polls all
\* observed the returned buffer.
C6_SettledOverConsecutivePolls ==
    pc = "extract" => (seen = lines /\ run >= settle_loops)

\* a line holding one of the speaker tags
Tagged(line) ==
    \E i \in 1..Len(line) : line[i] \in {HIM_PREFIX, HER_PREFIX}

\* a tagged message followed by more than one boundary line
MessageThenBoundaries(ls) ==
    /\ Len(ls) >= 3
    /\ Contains(ls[Len(ls)], PROMPT_MARKER)
    /\ Contains(ls[Len(ls) - 1], PROMPT_MARKER)
    /\ \E i \in 1..(Len(ls) - 2) : Tagged(ls[i])

\* C7: for a stabilized buffer with a tagged message followed by more than
\* one boundary line, the relayed text holds no boundary marker; for the
\* buffer of the end-to-end scenario it is exactly the words after the tag.
C7_RelaysTextAfterTag ==
    (pc = "commit" /\ MessageThenBoundaries(lines)) =>
        /\ ~Contains(sent[Len(sent)].msg, PROMPT_MARKER)
        /\ lines = StripBuffer(BufTwoPrompts) => sent[Len(sent)].msg = <<"hi">>

\* C8: a call that extracted the empty string returns with no send_to_pane
\* and with last_sender and last_response as they were; the step after the
\* extraction is the return to the loop, unless the operator's Ctrl-C ends
\* the run there; and the next call main makes has the same source pane.
C8_EmptyExtractionSkips ==
    /\ [](Returned /\ Body = <<>> =>
            /\ Len(sent) = entry.nsent
            /\ last_sender = entry.sender
            /\ last_response = entry.response)
    /\ [][(pc = "extract" /\ Body = <<>> /\ pc' # "extract")
             => \/ pc' = "loop" /\ exit_status' = "running"
                \/ pc' = "done" /\ pending' # "OSError"]_vars
    /\ [][(pc = "loop" /\ outcome = "empty" /\ pc' = "call")
             => call'.from = call.from]_vars

C8_Witness ==
    /\ pc = "call"
    /\ outcome = "empty"
    /\ NumRelayed = 1
    /\ call = WomanCall

\* C9: when main has ended, cleanup_tmux has been called.
C9_TeardownOnEveryExit == pc = "done" => cleaned

C9_Witness ==
    /\ pc = "done"
    /\ pending = "KeyboardInterrupt"
    /\ cleaned

\* C10: a run ended by Ctrl-C ends with a clean status.
C10_InterruptExitsClean ==
    (pc = "done" /\ pending # "OSError") => exit_status = "clean"

\* C11: a relay whose send_to_pane got a non-zero status from tmux still
\* returns normally: the step after the send is line 361 (or the operator's
\* Ctrl-C), the body was sent once, last_response holds it, last_sender is
\* flipped, and the next call main makes waits on the party it was sent to.
C11_DeliveryFailureNotFatal ==
    /\ [](Returned /\ outcome = "relayed" /\ last_status # 0 =>
            /\ Len(sent) = entry.nsent + 1
            /\ last_response = sent[Len(sent)].msg
            /\ last_sender = call.flag
            /\ last_sender # entry.sender)
    /\ [][(pc = "send" /\ last_status' # 0 /\ Len(sent') > Len(sent))
             => (pc' = "commit" /\ exit_status' = "running")]_vars
    /\ [][(pc = "loop" /\ outcome = "relayed" /\ last_status # 0
             /\ pc' = "call") => call'.from = call.to]_vars

C11_Witness ==
    /\ pc = "call"
    /\ last_status # 0
    /\ NumRelayed = 1
    /\ call = WomanCall
    /\ last_response = sent[Len(sent)].msg

\* C12: when send_to_pane has finished, by return or by exception, the
\* temporary file it made does not exist.
C12_TempFileGone == s_pc \in {"returned", "raised"} => tmp = "none"

\* a buffer with a boundary line
HasBoundary(ls) == \E i \in 1..Len(ls) : Contains(ls[i], PROMPT_MARKER)

Extracted == pc \in {"loop", "send"}

\* C13: extract_response yields a text for every buffer (its result is a
\* sequence of tokens, whatever the lines are), and the empty text for every
\* buffer without a boundary line.
C13_ExtractTotal ==
    Extracted =>
        /\ \A i \in 1..Len(response) : response[i] \in Tokens
        /\ ~HasBoundary(lines) => response = <<>>

C13_Witness ==
    /\ Extracted
    /\ Len(lines) = MaxLines
    /\ ~HasBoundary(lines)
    /\ \E i \in 1..Len(lines) : Tagged(lines[i])
    /\ response = <<>>

\* an echoed-input line: starts with ">>>" and is not a boundary line
IsEcho(line) ==
    StartsWith(Strip(line), ">>>") /\ ~Contains(line, PROMPT_MARKER)

LastBoundary(ls) ==
    CHOOSE i \in 1..Len(ls) :
        /\ Contains(ls[i], PROMPT_MARKER)
        /\ \A j \in (i + 1)..Len(ls) : ~Contains(ls[j], PROMPT_MARKER)

\* the line after the closest echoed-input line before the last boundary,
\* the first line if there is none
ClaimedLeftEdge(ls) ==
    LET echoes == {i \in 1..(LastBoundary(ls) - 1) : IsEcho(ls[i])}
    IN  IF echoes = {} THEN 1
        ELSE 1 + CHOOSE i \in echoes : \A j \in echoes : j <= i

\* C15: the slice extract_response works on starts right after the closest
\* echoed-input line before the last boundary, the first line of the buffer
\* included, and so holds no echoed-input line.
C15_LeftEdgeAfterClosestEcho ==
    (Extracted /\ HasBoundary(lines)) =>
        /\ StartIdx(lines, LastBoundary(lines)) = ClaimedLeftEdge(lines)
        /\ \A i \in StartIdx(lines, LastBoundary(lines))
                       ..(LastBoundary(lines) - 1) : ~IsEcho(lines[i])

\* position of the first speaker tag of a text, 0 if it has none
FirstTagPos(t) ==
    IF \E i \in 1..Len(t) : t[i] \in {HIM_PREFIX, HER_PREFIX}
    THEN CHOOSE i \in 1..Len(t) :
            /\ t[i] \in {HIM_PREFIX, HER_PREFIX}
            /\ \A j \in 1..(i - 1) : t[j] \notin {HIM_PREFIX, HER_PREFIX}
    ELSE 0

\* every run of "..." replaced by one blank
RECURSIVE CollapseRuns(_)
CollapseRuns(t) ==
    IF t = <<>> THEN <<>>
    ELSE IF Head(t) # "..." THEN <<Head(t)>> \o CollapseRuns(Tail(t))
    ELSE IF Len(t) > 1 /\ t[2] = "..." THEN CollapseRuns(Tail(t))
    ELSE <<" ">> \o CollapseRuns(Tail(t))

ClaimedBody(t) ==
    CollapseRuns(Strip(SubSeq(t, FirstTagPos(t) + 1, Len(t))))

\* C16: when the joined slice holds a speaker tag, the result is the text
\* after the first tag in it, trimmed, each run of "..." made one blank.
C16_BodyAfterFirstTag ==
    (Extracted /\ HasBoundary(lines)
        /\ FirstTagPos(JoinSpace(ResponseLines(lines))) > 0) =>
        response = ClaimedBody(JoinSpace(ResponseLines(lines)))

\* C14: once main is in the conversation loop, the only step that ends the
\* run is the operator's Ctrl-C, caught at line 433.
C14_LoopEndsOnlyByInterrupt ==
    [][(in_loop /\ pc # "done" /\ pc' = "done") => pending' = "none"]_vars

\* C17: every body relay_response forwards is non-empty and differs from the
\* body forwarded just before it, whichever party produced either; and a
\* non-empty extraction that differs from last_response goes on to be sent,
\* even when the same body was forwarded earlier in the run.
C17_OnlyLastBodySuppressed ==
    /\ [](\A i \in (NumSetupSends + 1)..Len(sent) :
            /\ sent[i].msg # <<>>
            /\ i > NumSetupSends + 1 => sent[i].msg # sent[i - 1].msg)
    /\ [][(pc = "extract" /\ pc' \notin {"extract", "done"}
             /\ Body # <<>> /\ Body # last_response)
             => (pc' = "send" /\ response' = Body)]_vars

C17_Witness ==
    /\ NumRelayed = 3
    /\ pc = "loop"
    /\ outcome = "relayed"
    /\ sent[Len(sent)].msg = sent[Len(sent) - 2].msg
    /\ sent[Len(sent)].to # sent[Len(sent) - 1].to

\* C20: wait_for_prompt never polls on once settle_loops + 1 snapshots in a
\* row were the same buffer with more boundaries than the baseline: by then
\* it has returned that buffer; and it returns only a buffer that has more
\* boundaries than the baseline and was seen settle_loops + 1 times in a row.
C20_WaitBoundedOnceSettled ==
    /\ (pc = "poll" /\ run >= settle_loops + 1)
          => count_prompts(seen) <= base_prompt_count
    /\ pc = "extract"
          => /\ count_prompts(lines) > base_prompt_count
             /\ lines = seen
             /\ run >= 1

C20_Witness ==
    /\ pc = "extract"
    /\ run = settle_loops + 1
    /\ lines = seen
    /\ count_prompts(lines) = base_prompt_count + 1
    /\ base_prompt_count = 1

Skipped == {"empty", "duplicate"}

\* C18: after a relay_response that returned without sending, main calls it
\* again for the same source pane, the new baseline is at least the number
\* of boundaries of the buffer that was skipped, the call gets past its wait
\* only with a buffer holding more boundaries than that, and a body skipped
\* as a duplicate is no part of what that call then forwards.
C18_SkippedIsNotRelayedLater ==
    /\ [][(pc = "loop" /\ outcome \in Skipped /\ pc' = "call")
             => call'.from = call.from]_vars
    /\ [][(pc = "call" /\ outcome \in Skipped /\ pc' = "poll")
             => base_prompt_count' >= count_prompts(lines)]_vars
    /\ []((pc \in {"extract", "send", "commit"} /\ entry.prev \in Skipped)
             => count_prompts(lines) > base_prompt_count)
    /\ []((pc \in {"send", "commit"} /\ entry.prev = "duplicate")
             => ~Contains(response, entry.response))

\* C19: while relay_response polls a pane whose agent was sent a message
\* just before the call and has since answered everything it was sent, the
\* pane shows more boundaries than the baseline, so that the answer is what
\* the wait returns.
C19_NoReplyLostToBaseline ==
    (pc = "poll" /\ entry.prev \in {"none", "relayed"}
        /\ Pending(call.from) = 0)
        => count_prompts(get_pane_output(call.from)) > base_prompt_count

====
